---- MODULE Spec2Model ----
(***************************************************************************)
(* A state-machine model of lmppl/ppl_recurrent_lm.py: the LM scorer and    *)
(* its batched perplexity loop LM.get_perplexity.                           *)
(*                                                                         *)
(* A text is represented by the token ids the tokenizer yields for it      *)
(* before truncation and padding.  A logit vector is represented by the    *)
(* positive integer weights w[c] = exp(logit[c]), so that the softmax      *)
(* probability of class c is w[c] / SUM w and the cross entropy of a label *)
(* y is ln(SUM w / w[y]).  A sum of cross entropies ln(a1/b1)+...+ln(ak/bk)*)
(* is kept exactly as the reduced fraction (a1*...*ak)/(b1*...*bk).         *)
(***************************************************************************)
EXTENDS Integers, Sequences, FiniteSets, TLC

\* ---------------------------------------------------------------- bounds
\* most texts of one call
MaxTexts == 2
\* most tokens of one call, all texts together
MaxTotalTok == 4
\* tokenizer.model_max_length of the loaded tokenizer
ModelMaxLength == 3
\* len(tokenizer) of the loaded tokenizer, before a pad token is injected
VocabSize == 2
\* most tokens of one call's texts that have the pad token's id
MaxPadIdTok == 1

\* ------------------------------------------------------------- constants
PAD_TOKEN_LABEL_ID == -100

\* Python's None, and a present optional value
None == {}
Some(x) == {x}
Val(o) == CHOOSE x \in o : TRUE

Min(a, b) == IF a <= b THEN a ELSE b
Max(a, b) == IF a >= b THEN a ELSE b
CeilDiv(a, b) == (a + b - 1) \div b

RECURSIVE GCD(_, _)
GCD(a, b) == IF b = 0 THEN a ELSE GCD(b, a % b)

RECURSIVE MaxLen(_)
MaxLen(ts) == IF ts = <<>> THEN 0 ELSE Max(Len(Head(ts)), MaxLen(Tail(ts)))

\* ------------------------------------------------------------ LM.__init__
\* tokenizer.pad_token_id after construction: an existing pad token keeps its
\* id inside the vocabulary, an injected "<<PAD>>" gets the next free id
PadTokenId(pad_is_none) == IF pad_is_none THEN VocabSize ELSE 0

\* len(tokenizer) after construction = rows of the (resized) embedding = width
\* of the logits the model returns
EmbeddingSize(pad_is_none) == IF pad_is_none THEN VocabSize + 1 ELSE VocabSize

InitPadTokenInitialized(pad_is_none) == pad_is_none

\* the assertion on max_length: construction fails when it is violated
MaxLengthAccepted(ml) == IF ml = None THEN TRUE ELSE Val(ml) <= ModelMaxLength

\* ------------------------------------------------------------- tokenizer
\* truncation=True: to max_length when given, else to model_max_length
TruncLimit(ml) == IF ml # None THEN Val(ml) ELSE ModelMaxLength

Truncated(ts, ml) ==
  [r \in 1..Len(ts) |-> SubSeq(ts[r], 1, Min(Len(ts[r]), TruncLimit(ml)))]

\* seeded fault: padding=True in both branches
PaddedLengthLongest(ts, ml) == MaxLen(Truncated(ts, ml))

\* padding='max_length' pads to max_length, padding=True to the longest row
PaddedLength(ts, ml) ==
  IF ml # None THEN Val(ml) ELSE MaxLen(Truncated(ts, ml))

Tokenizer(ts, ml, pad_id) ==
  LET tr == Truncated(ts, ml)
      L  == PaddedLength(ts, ml)
  IN [input_ids |->
        [r \in 1..Len(ts) |->
           [i \in 1..L |-> IF i <= Len(tr[r]) THEN tr[r][i] ELSE pad_id]],
      attention_mask |->
        [r \in 1..Len(ts) |->
           [i \in 1..L |-> IF i <= Len(tr[r]) THEN 1 ELSE 0]]]

\* ----------------------------------------------------------------- model
RECURSIVE PrefixSum(_, _)
PrefixSum(ids, i) == IF i = 0 THEN 0 ELSE ids[i] + PrefixSum(ids, i - 1)

\* the weight exp(logit) the causal model gives class c at position i of a row:
\* a fixed function of the position and of the row's ids up to it (ctx)
ModelWeight(ctx, i, c) == 1 + ((ctx + i + c) % 3)

ModelForward(inp, width) ==
  [logits |->
     [r \in 1..Len(inp.input_ids) |->
        [i \in 1..Len(inp.input_ids[r]) |->
           LET ctx == PrefixSum(inp.input_ids[r], i)
           IN [c \in 0..(width - 1) |-> ModelWeight(ctx, i, c)]]]]

Width(t) == IF t = <<>> \/ t[1] = <<>> THEN 0 ELSE Cardinality(DOMAIN t[1][1])

\* ------------------------------------------------------- get_perplexity
\* seeded fault: the slice runs one row too far
SliceRowsInclusive(t, s, e) == SubSeq(t, s + 1, Min(e + 1, Len(t)))

\* v[start:end] on every tensor of model_inputs (Python slices clip at the end)
SliceRows(t, s, e) == SubSeq(t, s + 1, Min(e, Len(t)))

\* seeded fault: every batch is padded to its own longest row
BatchInputsRepadded(mi, s, e) ==
  LET m  == SliceRows(mi.attention_mask, s, e)
      x  == SliceRows(mi.input_ids, s, e)
      Lb == MaxLen([r \in 1..Len(m) |-> SelectSeq(m[r], LAMBDA b : b = 1)])
  IN [input_ids |-> [r \in 1..Len(x) |-> SubSeq(x[r], 1, Lb)],
      attention_mask |-> [r \in 1..Len(m) |-> SubSeq(m[r], 1, Lb)]]

BatchInputs(mi, s, e) ==
  [input_ids |-> SliceRows(mi.input_ids, s, e),
   attention_mask |-> SliceRows(mi.attention_mask, s, e)]

\* seeded fault: the last column is dropped whatever the flag says
TrimLogitAlways(lg, pti) ==
  [r \in 1..Len(lg) |->
     [i \in 1..Len(lg[r]) |->
        [c \in 0..(Cardinality(DOMAIN lg[r][i]) - 2) |-> lg[r][i][c]]]]

\* logit[:, :, :-1] when the pad token was injected
TrimLogit(lg, pti) ==
  IF pti
  THEN [r \in 1..Len(lg) |->
         [i \in 1..Len(lg[r]) |->
            [c \in 0..(Cardinality(DOMAIN lg[r][i]) - 2) |-> lg[r][i][c]]]]
  ELSE lg

\* label[label == pad_token_id] = PAD_TOKEN_LABEL_ID
MaskPad(ids, pad_id) ==
  [r \in 1..Len(ids) |->
     [i \in 1..Len(ids[r]) |->
        IF ids[r][i] = pad_id THEN PAD_TOKEN_LABEL_ID ELSE ids[r][i]]]

\* seeded fault: the in-place write lands one row late
WriteRowsShifted(t, s, rows) ==
  [r \in 1..Len(t) |->
     IF r > s + 1 /\ r <= s + 1 + Len(rows) THEN rows[r - s - 1] ELSE t[r]]

\* the whole-call tensor after an in-place write through a batch view
WriteRows(t, s, rows) ==
  [r \in 1..Len(t) |->
     IF r > s /\ r <= s + Len(rows) THEN rows[r - s] ELSE t[r]]

\* logit[..., :-1, :]
ShiftLogits(lg) ==
  [r \in 1..Len(lg) |-> SubSeq(lg[r], 1, Len(lg[r]) - 1)]

\* seeded fault: the labels are cut at the end instead of shifted
ShiftLabelUnshifted(lb) ==
  [r \in 1..Len(lb) |-> SubSeq(lb[r], 1, Len(lb[r]) - 1)]

\* label[:, 1:]
ShiftLabel(lb) ==
  [r \in 1..Len(lb) |-> SubSeq(lb[r], 2, Len(lb[r]))]

\* (shift_label != PAD_TOKEN_LABEL_ID).sum(dim=-1)
ValidLength(sl) ==
  [r \in 1..Len(sl) |->
     Cardinality({j \in 1..Len(sl[r]) : sl[r][j] # PAD_TOKEN_LABEL_ID})]

\* CrossEntropyLoss(reduction='none'): ln(SUM w / w[y]), and 0 at an ignored label
RECURSIVE WeightSum(_, _)
WeightSum(w, k) == IF k < 0 THEN 0 ELSE w[k] + WeightSum(w, k - 1)

CrossEntropy(w, y) ==
  IF y = PAD_TOKEN_LABEL_ID
  THEN [num |-> 1, den |-> 1]
  ELSE [num |-> WeightSum(w, Cardinality(DOMAIN w) - 1), den |-> w[y]]

\* a label outside the logits' classes makes the loss function raise
LabelInRange(w, y) == y = PAD_TOKEN_LABEL_ID \/ y \in DOMAIN w

TokenLoss(slg, sl) ==
  [r \in 1..Len(sl) |->
     [j \in 1..Len(sl[r]) |-> CrossEntropy(slg[r][j], sl[r][j])]]

\* torch.sum(loss, -1): the sum of logarithms is the logarithm of the product
RECURSIVE ProdNum(_, _)
ProdNum(ls, j) == IF j = 0 THEN 1 ELSE ls[j].num * ProdNum(ls, j - 1)

RECURSIVE ProdDen(_, _)
ProdDen(ls, j) == IF j = 0 THEN 1 ELSE ls[j].den * ProdDen(ls, j - 1)

Frac(a, b) == [num |-> a \div GCD(a, b), den |-> b \div GCD(a, b)]

SumLoss(ls) == Frac(ProdNum(ls, Len(ls)), ProdDen(ls, Len(ls)))

\* torch.sum(loss, -1) / valid_length: ln(num/den) / div; div = 0 is 0/0 = nan
MeanLoss(tl, vl) ==
  [r \in 1..Len(tl) |->
     [num |-> SumLoss(tl[r]).num, den |-> SumLoss(tl[r]).den, div |-> vl[r]]]

\* math.exp: exp(ln(num/den) / div) = (num/den)^(1/div); exp(0) = 1; exp(nan) = nan
IsNaN(x) == x.div = 0
Exp(x) ==
  IF IsNaN(x) THEN [base |-> [num |-> 1, den |-> 1], root |-> 0]
  ELSE IF x.num = x.den THEN [base |-> [num |-> 1, den |-> 1], root |-> 1]
  ELSE [base |-> [num |-> x.num, den |-> x.den], root |-> x.div]

\* loss.view(len(output['logits']), -1) raises on a tensor of no elements
ViewFails(sl) == sl = <<>> \/ Len(sl[1]) = 0

\* v[start:end].to(self.device) returns the view itself when the tensor already
\* lives on the model's device, and a copy otherwise
SharesMemory(dev) == dev = "cpu"

\* ------------------------------------------------------------------ state
VARIABLES
  tok_pad_none,           \* tokenizer.pad_token was None when __init__ ran
  pad_token_initialized,  \* self.pad_token_initialized
  pad_token_id,           \* self.tokenizer.pad_token_id
  max_length,             \* self.max_length
  device,                 \* self.device
  input_texts,            \* argument: [is_str, texts]
  batch_arg,              \* argument batch
  forced_reset,           \* argument forced_reset
  pc,                     \* position in get_perplexity
  single_input, texts, batch, model_inputs, loss_list, start,
  batch_inputs, output, logit, label,
  shift_logits, shift_label, valid_length, loss,
  ppl, ret,
  fwd_log,                \* history: the input ids of every forward pass
  gc_log                  \* history: len(loss_list) at every cleanup

config == <<tok_pad_none, pad_token_initialized, pad_token_id, max_length, device>>
args == <<input_texts, batch_arg, forced_reset>>
prepared == <<single_input, texts, batch>>
tensors == <<output, logit, label, shift_logits, shift_label, valid_length, loss>>
vars == <<config, args, pc, prepared, model_inputs, loss_list, start,
          batch_inputs, tensors, ppl, ret, fwd_log, gc_log>>

\* ------------------------------------------------------------------ inputs
\* the ids a text can tokenize to: an ordinary token, and the pad token itself
\* (the text spells the pad token, or the pad token doubles as another token)
TextIds(pad_id) == {pad_id, VocabSize - 1}

\* a text has at least one token, and may be one token longer than the
\* tokenizer's model_max_length
TokSeqs(pad_id) ==
  UNION {[1..k -> TextIds(pad_id)] : k \in 1..Min(ModelMaxLength + 1, MaxTotalTok)}

\* how many tokens of a text have the pad token's id
PadIdCount(t, pad_id) == Cardinality({i \in 1..Len(t) : t[i] = pad_id})

\* the lists of n texts that hold at most budget tokens together, at most pads
\* of them with the pad token's id
RECURSIVE TextListsOf(_, _, _, _)
TextListsOf(pad_id, n, budget, pads) ==
  IF n = 0 THEN {<<>>}
  ELSE UNION {{<<t>> \o rest :
                 rest \in TextListsOf(pad_id, n - 1, budget - Len(t),
                                      pads - PadIdCount(t, pad_id))} :
                t \in {u \in TokSeqs(pad_id) :
                         /\ Len(u) <= budget - (n - 1)
                         /\ PadIdCount(u, pad_id) <= pads}}

TextLists(pad_id) ==
  UNION {TextListsOf(pad_id, n, MaxTotalTok, MaxPadIdTok) : n \in 1..MaxTexts}

Init ==
  /\ tok_pad_none \in BOOLEAN
  /\ pad_token_initialized = InitPadTokenInitialized(tok_pad_none)
  /\ pad_token_id = PadTokenId(tok_pad_none)
  /\ \E ts \in TextLists(pad_token_id) :
       input_texts \in {[is_str |-> FALSE, texts |-> ts]}
                       \cup (IF Len(ts) = 1
                             THEN {[is_str |-> TRUE, texts |-> ts]} ELSE {})
  /\ batch_arg \in {None} \cup {Some(b) : b \in 1..(Len(input_texts.texts) + 1)}
  /\ forced_reset \in BOOLEAN
  /\ max_length \in {None} \cup {Some(k) : k \in 1..(ModelMaxLength + 1)}
  /\ MaxLengthAccepted(max_length)
  /\ device \in {"cpu", "cuda"}
  /\ pc = "call"
  /\ single_input = FALSE
  /\ texts = <<>>
  /\ batch = 0
  /\ model_inputs = <<>>
  /\ loss_list = <<>>
  /\ start = 0
  /\ batch_inputs = <<>>
  /\ output = <<>>
  /\ logit = <<>>
  /\ label = <<>>
  /\ shift_logits = <<>>
  /\ shift_label = <<>>
  /\ valid_length = <<>>
  /\ loss = <<>>
  /\ ppl = <<>>
  /\ ret = <<>>
  /\ fwd_log = <<>>
  /\ gc_log = <<>>

\* ----------------------------------------------------------------- actions
\* batch preparation and tokenization of all input texts
Prepare ==
  /\ pc = "call"
  /\ single_input' = input_texts.is_str
  /\ texts' = input_texts.texts
  /\ batch' = IF batch_arg = None THEN Len(input_texts.texts) ELSE Val(batch_arg)
  /\ model_inputs' = Tokenizer(input_texts.texts, max_length, pad_token_id)
  /\ loss_list' = <<>>
  /\ start' = 0
  /\ pc' = "loop"
  /\ UNCHANGED <<config, args, batch_inputs, tensors, ppl, ret, fwd_log, gc_log>>

\* one value of range(0, len(input_texts), batch): slice, forward pass, trim
BatchForward ==
  LET inp == BatchInputs(model_inputs, start, start + batch)
      out == ModelForward(inp, EmbeddingSize(tok_pad_none))
  IN /\ pc = "loop"
     /\ start < Len(texts)
     /\ batch_inputs' = inp
     /\ output' = out
     /\ logit' = TrimLogit(out.logits, pad_token_initialized)
     /\ fwd_log' = Append(fwd_log, [start |-> start, ids |-> inp.input_ids])
     /\ pc' = "mask"
     /\ UNCHANGED <<config, args, prepared, model_inputs, loss_list, start, label,
                    shift_logits, shift_label, valid_length, loss, ppl, ret, gc_log>>

\* label is batch_inputs['input_ids'] itself, overwritten in place
MaskLabels ==
  LET masked == MaskPad(batch_inputs.input_ids, pad_token_id)
  IN /\ pc = "mask"
     /\ label' = masked
     /\ batch_inputs' = [batch_inputs EXCEPT !.input_ids = masked]
     /\ model_inputs' =
          IF SharesMemory(device)
          THEN [model_inputs EXCEPT
                  !.input_ids = WriteRows(model_inputs.input_ids, start, masked)]
          ELSE model_inputs
     /\ pc' = "loss"
     /\ UNCHANGED <<config, args, prepared, loss_list, start, output, logit,
                    shift_logits, shift_label, valid_length, loss, ppl, ret,
                    fwd_log, gc_log>>

LossRaisesOn(slg, sl) ==
  \/ ViewFails(sl)
  \/ \E r \in 1..Len(sl) : \E j \in 1..Len(sl[r]) : ~LabelInRange(slg[r][j], sl[r][j])

\* seeded fault: the loop steps by one row instead of one batch
NextStartByOne == start + 1

\* the start of the next iteration of the for loop
NextStart == start + batch

\* seeded fault: the cleanup runs unconditionally
CleanupAlways(fr) == TRUE

\* if forced_reset:
CleanupWanted(fr) == fr

\* shift, per-token loss, per-row mean, append to loss_list
ComputeLoss ==
  LET slg == ShiftLogits(logit)
      sl  == ShiftLabel(label)
      vl  == ValidLength(sl)
      tl  == TokenLoss(slg, sl)
  IN /\ pc = "loss"
     /\ ~LossRaisesOn(slg, sl)
     /\ shift_logits' = slg
     /\ shift_label' = sl
     /\ valid_length' = vl
     /\ loss' = tl
     /\ loss_list' = loss_list \o MeanLoss(tl, vl)
     /\ IF CleanupWanted(forced_reset)
        THEN pc' = "reset" /\ start' = start
        ELSE pc' = "loop" /\ start' = NextStart
     /\ UNCHANGED <<config, args, prepared, model_inputs, batch_inputs, output,
                    logit, label, ppl, ret, fwd_log, gc_log>>

\* the loss computation raises: get_perplexity returns nothing
LossRaises ==
  LET slg == ShiftLogits(logit)
      sl  == ShiftLabel(label)
  IN /\ pc = "loss"
     /\ LossRaisesOn(slg, sl)
     /\ shift_logits' = slg
     /\ shift_label' = sl
     /\ pc' = "error"
     /\ UNCHANGED <<config, args, prepared, model_inputs, loss_list, start,
                    batch_inputs, output, logit, label, valid_length, loss,
                    ppl, ret, fwd_log, gc_log>>

\* del batch_inputs; del output; gc.collect(); torch.cuda.empty_cache()
ForcedReset ==
  /\ pc = "reset"
  /\ batch_inputs' = <<>>
  /\ output' = <<>>
  /\ gc_log' = Append(gc_log, Len(loss_list))
  /\ start' = NextStart
  /\ pc' = "loop"
  /\ UNCHANGED <<config, args, prepared, model_inputs, loss_list, logit, label,
                 shift_logits, shift_label, valid_length, loss, ppl, ret, fwd_log>>

\* ppl[0] for a single string, the list otherwise
Returned(single, p) == IF single THEN p[1] ELSE p

\* the range is exhausted: conversion to perplexity and return
Finish ==
  LET p == [k \in 1..Len(loss_list) |-> Exp(loss_list[k])]
  IN /\ pc = "loop"
     /\ start >= Len(texts)
     /\ ppl' = p
     /\ ret' = Returned(single_input, p)
     /\ pc' = "done"
     /\ UNCHANGED <<config, args, prepared, model_inputs, loss_list, start,
                    batch_inputs, tensors, fwd_log, gc_log>>

Next ==
  \/ Prepare
  \/ BatchForward
  \/ MaskLabels
  \/ ComputeLoss
  \/ LossRaises
  \/ ForcedReset
  \/ Finish

Spec == Init /\ [][Next]_vars

\* ------------------------------------------------------------ properties
\* the tokenized ids of the whole call, as the tokenizer returned them (the
\* properties bind them once, as tk, with a quantifier over a singleton)
TokenizedIds == Tokenizer(texts, max_length, pad_token_id).input_ids

\* the scoring pipeline on one tensor of rows
ScoredLabels(ids) == ShiftLabel(MaskPad(ids, pad_token_id))
ScoredLogits(ids) ==
  ShiftLogits(TrimLogit(ModelForward([input_ids |-> ids],
                                     EmbeddingSize(tok_pad_none)).logits,
                        pad_token_initialized))
ScoreRaises(ids) == LossRaisesOn(ScoredLogits(ids), ScoredLabels(ids))
ScoreRows(ids) ==
  LET m == MeanLoss(TokenLoss(ScoredLogits(ids), ScoredLabels(ids)),
                    ValidLength(ScoredLabels(ids)))
  IN [k \in 1..Len(ids) |-> Exp(m[k])]

\* The perplexity of one tokenized row, from the definition: position i
\* predicts the token at i+1, tokens with the pad id are not scored, the
\* classes are those of the tokenizer before a pad token was injected.
RowClasses == EmbeddingSize(tok_pad_none) - (IF tok_pad_none THEN 1 ELSE 0)

RECURSIVE RowWeightSum(_, _, _)
RowWeightSum(row, i, c) ==
  IF c < 0 THEN 0
  ELSE ModelWeight(PrefixSum(row, i), i, c) + RowWeightSum(row, i, c - 1)

RECURSIVE RowNum(_, _)
RowNum(row, i) ==
  IF i = 0 THEN 1
  ELSE (IF row[i + 1] = pad_token_id THEN 1
        ELSE RowWeightSum(row, i, RowClasses - 1)) * RowNum(row, i - 1)

RECURSIVE RowDen(_, _)
RowDen(row, i) ==
  IF i = 0 THEN 1
  ELSE (IF row[i + 1] = pad_token_id THEN 1
        ELSE ModelWeight(PrefixSum(row, i), i, row[i + 1])) * RowDen(row, i - 1)

RowPerplexity(row) ==
  LET f == Frac(RowNum(row, Len(row) - 1), RowDen(row, Len(row) - 1))
  IN Exp([num |-> f.num, den |-> f.den,
          div |-> Cardinality({i \in 2..Len(row) : row[i] # pad_token_id})])

\* the tensors of the state are those of one batch that has been scored
BatchScored == pc = "reset" \/ (pc \in {"loop", "done"} /\ loss_list # <<>>)

RECURSIVE Flatten(_)
Flatten(ss) == IF ss = <<>> THEN <<>> ELSE Head(ss) \o Flatten(Tail(ss))

C2_BatchLoop ==
  pc # "call" =>
    \A tk \in {TokenizedIds} :
    LET n  == Len(texts)
        nb == CeilDiv(n, batch)
    IN /\ batch = (IF batch_arg = None THEN n ELSE Val(batch_arg))
       /\ Len(fwd_log) <= nb
       /\ \A k \in 1..Len(fwd_log) :
            /\ fwd_log[k].start = (k - 1) * batch
            /\ Len(fwd_log[k].ids) = (IF k < nb THEN batch ELSE n - (nb - 1) * batch)
            /\ \A r \in 1..Len(fwd_log[k].ids) :
                 fwd_log[k].ids[r] = tk[(k - 1) * batch + r]
       /\ (pc = "done" =>
             /\ Len(fwd_log) = nb
             /\ Flatten([k \in 1..nb |-> fwd_log[k].ids]) = tk
             /\ (batch_arg = None => nb = 1 /\ fwd_log[1].ids = tk))
       /\ batch >= 1
       /\ start = batch * (IF pc \in {"mask", "loss", "reset", "error"}
                           THEN Len(fwd_log) - 1 ELSE Len(fwd_log))

C2_Witness ==
  /\ pc = "done"
  /\ Len(texts) = 2
  /\ batch = 1
  /\ Len(fwd_log) = 2
  /\ fwd_log[1].ids # fwd_log[2].ids

\* C3 (as claimed): the positions excluded from the loss are exactly the
\* padding positions: every padding position of the labels holds the sentinel,
\* and no real token after the first one does.
C3_OnlyPaddingMasked ==
  pc = "loss" =>
    \A r \in 1..Len(label) : \A i \in 1..Len(label[r]) :
      /\ batch_inputs.attention_mask[r][i] = 0 => label[r][i] = PAD_TOKEN_LABEL_ID
      /\ (batch_inputs.attention_mask[r][i] = 1 /\ i >= 2)
           => label[r][i] # PAD_TOKEN_LABEL_ID

\* C4: logits at position i are scored against the label at position i+1 for
\* every i but the last; the last logits and the first label are unused, and
\* shifted logits and labels both have length L-1.
C4_ShiftAlignment ==
  BatchScored =>
    \A r \in 1..Len(label) :
      LET L == Len(label[r])
      IN /\ Len(logit[r]) = L
         /\ Len(shift_logits[r]) = L - 1
         /\ Len(shift_label[r]) = L - 1
         /\ Len(loss[r]) = L - 1
         /\ \A i \in 1..(L - 1) :
              /\ shift_logits[r][i] = logit[r][i]
              /\ shift_label[r][i] = label[r][i + 1]
              /\ loss[r][i] = CrossEntropy(logit[r][i], label[r][i + 1])

C4_Witness ==
  /\ BatchScored
  /\ Len(label[1]) = 3
  /\ label[1][1] # label[1][2]
  /\ label[1][2] # label[1][3]
  /\ logit[1][1] # logit[1][2]
  /\ label[1][3] # PAD_TOKEN_LABEL_ID

\* the losses at the valid positions of a row, in order
RECURSIVE ValidLosses(_, _, _)
ValidLosses(tl, sl, j) ==
  IF j > Len(sl) THEN <<>>
  ELSE IF sl[j] = PAD_TOKEN_LABEL_ID THEN ValidLosses(tl, sl, j + 1)
  ELSE <<tl[j]>> \o ValidLosses(tl, sl, j + 1)

\* no text of the call holds the pad token's id
NoPadIdInTexts ==
  \A r \in 1..Len(texts) : \A i \in 1..Len(texts[r]) : texts[r][i] # pad_token_id

\* C5 (as claimed): the mean loss of a row is the sum of the losses at its valid
\* shifted positions divided by the number of its valid positions, the
\* perplexity is the exponential of that mean, and the divisor is never zero.
\* Stated for the calls whose texts hold no pad token id, where only padding is
\* masked.
C5_MeanOverValid ==
  (BatchScored /\ NoPadIdInTexts) =>
    \A r \in 1..Len(loss) :
      LET cnt == Cardinality({j \in 1..Len(shift_label[r]) :
                                shift_label[r][j] # PAD_TOKEN_LABEL_ID})
          sum == SumLoss(ValidLosses(loss[r], shift_label[r], 1))
          at  == Len(loss_list) - Len(loss) + r
      IN /\ loss_list[at] = [num |-> sum.num, den |-> sum.den, div |-> cnt]
         /\ (pc = "done" => ppl[at] = Exp(loss_list[at]))
         /\ cnt # 0

\* C6: the last vocabulary column is dropped exactly when the pad token was
\* injected at construction: pad_token_initialized is true exactly when the
\* tokenizer had no pad token, stays so during get_perplexity, and when it is
\* false the logits keep the model's full width.
C6_TrimIffInjected ==
  /\ pad_token_initialized = tok_pad_none
  /\ output # <<>> =>
       /\ Width(output.logits) = EmbeddingSize(tok_pad_none)
       /\ Width(logit) = (IF tok_pad_none THEN Width(output.logits) - 1
                          ELSE Width(output.logits))
       /\ \A r \in 1..Len(logit) : \A i \in 1..Len(logit[r]) :
            \A c \in DOMAIN logit[r][i] : logit[r][i][c] = output.logits[r][i][c]

C6_Witness ==
  /\ pc = "done"
  /\ output # <<>>
  /\ pad_token_initialized
  /\ Len(fwd_log) = 2
  /\ Width(logit) = VocabSize

\* the sequence length of the whole call
SeqLength == Len(model_inputs.input_ids[1])

\* C7 (as claimed): all inputs are padded to one length: max_length when it is
\* set, otherwise the token length of the longest input of the call.
C7_LongestInput ==
  pc # "call" =>
    SeqLength = (IF max_length # None THEN Val(max_length) ELSE MaxLen(texts))

\* C7 (amended): ... otherwise the token length of the longest input after its
\* truncation to the tokenizer's model_max_length; every row of every batch has
\* that length and holds the leading tokens of its text.
C7_CommonLength ==
  pc # "call" =>
    LET lim == IF max_length # None THEN Val(max_length) ELSE ModelMaxLength
        L   == IF max_length # None THEN Val(max_length)
               ELSE Min(MaxLen(texts), ModelMaxLength)
    IN /\ SeqLength = L
       /\ \A r \in 1..Len(texts) :
            /\ Len(model_inputs.input_ids[r]) = L
            /\ Len(model_inputs.attention_mask[r]) = L
            /\ \A i \in 1..L :
                 model_inputs.attention_mask[r][i] =
                   (IF i <= Min(Len(texts[r]), lim) THEN 1 ELSE 0)
       /\ \A k \in 1..Len(fwd_log) : \A r \in 1..Len(fwd_log[k].ids) :
            /\ Len(fwd_log[k].ids[r]) = L
            /\ \A i \in 1..L :
                 fwd_log[k].ids[r][i] =
                   (IF i <= Min(Len(texts[fwd_log[k].start + r]), lim)
                    THEN texts[fwd_log[k].start + r][i] ELSE pad_token_id)

C7_Witness ==
  /\ pc = "done"
  /\ max_length = None
  /\ MaxLen(texts) > ModelMaxLength
  /\ SeqLength = ModelMaxLength
  /\ Len(fwd_log[1].ids[1]) = ModelMaxLength

\* C8: forced_reset only adds a cleanup after each batch's loss has been
\* appended and before the next batch starts; it changes neither the number of
\* batches nor the returned values, and without it no cleanup runs.
C8_ResetIsFrame ==
  /\ ~forced_reset => gc_log = <<>>
  /\ \A k \in 1..Len(gc_log) : gc_log[k] = Min(k * batch, Len(texts))
  /\ (forced_reset /\ pc \in {"mask", "loss", "reset"})
       => Len(gc_log) = Len(fwd_log) - 1
  /\ (forced_reset /\ pc \in {"loop", "done"}) => Len(gc_log) = Len(fwd_log)
  /\ pc = "done" =>
       /\ Len(fwd_log) = CeilDiv(Len(texts), batch)
       /\ \A tk \in {TokenizedIds} :
            ppl = [k \in 1..Len(texts) |-> RowPerplexity(tk[k])]

C8_Witness ==
  /\ pc = "done"
  /\ forced_reset
  /\ Len(gc_log) = 2
  /\ ppl[1] # ppl[2]

\* rows of the whole-call tensor that the masking has reached so far
RowsReached ==
  IF pc \in {"loss", "reset", "error"} THEN Min(start + batch, Len(texts))
  ELSE Min(start, Len(texts))

\* C9: every forward pass precedes the in-place masking of its batch, and the
\* masking of a batch touches only that batch's rows: no forward pass receives
\* the sentinel as an input id, also when the batch aliases the whole tensor.
C9_ForwardBeforeMask ==
  pc # "call" =>
    \A tk \in {TokenizedIds} :
      /\ \A k \in 1..Len(fwd_log) : \A r \in 1..Len(fwd_log[k].ids) :
           \A i \in 1..Len(fwd_log[k].ids[r]) :
             fwd_log[k].ids[r][i] # PAD_TOKEN_LABEL_ID
      /\ \A r \in 1..Len(texts) :
           r > RowsReached => model_inputs.input_ids[r] = tk[r]
      /\ ~SharesMemory(device) => model_inputs.input_ids = tk

C9_Witness ==
  /\ pc = "mask"
  /\ SharesMemory(device)
  /\ Len(fwd_log) = 2
  /\ \E i \in 1..SeqLength : model_inputs.input_ids[1][i] = PAD_TOKEN_LABEL_ID
  /\ \E i \in 1..SeqLength : model_inputs.input_ids[2][i] = pad_token_id

====
